---- MODULE Spec2Model ----
(***************************************************************************)
(* LoanManager (contracts/loan_manager/src/lib.rs): the loan lifecycle of  *)
(* the remittance lending contract.  Every public entry point is one       *)
(* atomic action on the contract's instance storage.  A call that panics   *)
(* (expect, unwrap, assert!, a refused require_auth, a division by zero, a *)
(* token transfer that traps) is rolled back by the host and changes       *)
(* nothing: the conditions under which a call does not panic are the       *)
(* *_ok predicates, and they guard the actions.                            *)
(***************************************************************************)
EXTENDS Integers, Sequences, FiniteSets, TLC

VARIABLES
    Config,         \* DataKey::{RemittanceNFTContract, LendingPoolContract, OracleContract, USDCTokenAddress}
    LoanCounter,    \* DataKey::LoanCounter
    Loans,          \* DataKey::Loan(u64): a function from the stored ids to Loan records
    BorrowerLoans,  \* DataKey::BorrowerLoans(Address): Vec<u64> per borrower
    history,        \* the successful request_loan calls so far, <<borrower, returned id>>, in order
    paidSinceMiss   \* the ids of the loans with a payment recorded after their latest reported miss

vars == <<Config, LoanCounter, Loans, BorrowerLoans, history, paidSinceMiss>>

----------------------------------------------------------------------------
(* Bounds of the model. *)

MaxLoans == 2           \* request_loan is explored while LoanCounter < MaxLoans
MaxRequests == 2        \* ... and while fewer than MaxRequests requests succeeded
MaxPayments == 2        \* make_payment is explored while fewer than MaxPayments payments are recorded
MaxMissed == 2          \* mark_payment_missed is explored while fewer than MaxMissed misses are recorded
PayoffMaxLoans == 1     \* the payoff scenario's cap on LoanCounter
PayoffMaxPayments == 12 \* the payoff scenario's cap on recorded payments
EdgeMaxLoans == 1       \* the edge scenario's cap on LoanCounter
EdgeMaxPayments == 2    \* the edge scenario's cap on recorded payments
EdgeMaxMissed == 3      \* the edge scenario's cap on recorded misses

(* Program constants. *)

PlaceholderRate == 2000     \* calculate_interest_rate's placeholder APR in basis points
ThirtyDays == 2592000       \* 30 * 24 * 60 * 60
DefaultThreshold == 2       \* payments_missed >= 2 defaults the loan

----------------------------------------------------------------------------
(* Inputs. *)

Unset == "unset"            \* a configuration key that was never written
Borrowers == {"alice", "bob"}
ConfigInputs ==
    { [nft |-> "nft1", pool |-> "pool1", oracle |-> "oracle1", usdc |-> "usdc1"],
      [nft |-> "nft2", pool |-> "pool2", oracle |-> "oracle2", usdc |-> "usdc2"] }
Callers == Borrowers \cup {"oracle1", "oracle2"}
NftIds == {7}
Timestamps == {1000}
RequestAmounts == {1000}
Durations == {0, 1}
PayAmounts == {-50, 5000}
RemittanceAmounts == {300, 2000}
LoanIds == 1 .. MaxLoans

PayoffBorrowers == {"alice"}
PayoffConfigInputs ==
    { [nft |-> "nft1", pool |-> "pool1", oracle |-> "oracle1", usdc |-> "usdc1"] }
PayoffCallers == {"alice", "oracle1"}
PayoffTimestamps == {0}
PayoffRequestAmounts == {1000000}
PayoffDurations == {12}
PayoffPayAmounts == {100000}
PayoffRemittanceAmounts == {150000}
PayoffLoanIds == 1 .. PayoffMaxLoans

EdgeBorrowers == {"alice"}
EdgeConfigInputs ==
    { [nft |-> "nft1", pool |-> "pool1", oracle |-> "oracle1", usdc |-> "usdc1"] }
EdgeCallers == {"alice", "oracle1"}
EdgeDurations == {1}
EdgePayAmounts == {0, 10}
EdgeRemittanceAmounts == {-50, 0}
EdgeLoanIds == 1 .. EdgeMaxLoans

----------------------------------------------------------------------------
(* Arithmetic.  Rust's `/` on signed integers truncates toward zero.  The   *)
(* amounts are i128 and the products below stay far inside i128, but they   *)
(* can exceed TLC's 32-bit integers, so a product that is divided at once   *)
(* is computed by doubling, as quotient and remainder, exactly.             *)

TruncDiv(a, b) ==
    IF a >= 0 THEN a \div b ELSE -((-a) \div b)

RECURSIVE MulQR(_, _, _)
\* <<q, r>> with a * b = q * c + r and 0 <= r < c, for a >= 0, b >= 0, c > 0
MulQR(a, b, c) ==
    IF b = 0 THEN <<0, 0>>
    ELSE LET half == MulQR(a, b \div 2, c)
             add  == IF b % 2 = 1 THEN a ELSE 0
             r2   == 2 * half[2] + (add % c)
         IN  <<2 * half[1] + (add \div c) + (r2 \div c), r2 % c>>

\* (a * b) / c as Rust computes it, for b >= 0 and c > 0: directly where the product
\* fits in 32 bits, by doubling where it does not
MulDiv(a, b, c) ==
    IF b = 0 \/ (IF a >= 0 THEN a ELSE -a) <= 2147483647 \div b
    THEN TruncDiv(a * b, c)
    ELSE IF a >= 0 THEN MulQR(a, b, c)[1] ELSE -(MulQR(-a, b, c)[1])

calculate_interest_rate(nft_id) == PlaceholderRate

calculate_monthly_payment(principal, annual_rate_bps, months) ==
    LET total_interest == MulDiv(principal, annual_rate_bps * months, 12 * 10000)
        total_repayment == principal + total_interest
    IN  TruncDiv(total_repayment, months)

calculate_interest_portion(outstanding, annual_rate_bps) ==
    LET monthly_rate_bps == annual_rate_bps \div 12
    IN  MulDiv(outstanding, monthly_rate_bps, 10000)

\* principal_portion without the floor at zero
principal_portion_NoFloor(amount, interest_portion) == amount - interest_portion

principal_portion(amount, interest_portion) ==
    IF amount > interest_portion THEN amount - interest_portion ELSE 0

----------------------------------------------------------------------------
(* The Loan record and its updates. *)

NewLoan(counter, borrower, nft_id, amount, duration_months, timestamp) ==
    [ loan_id             |-> counter,
      borrower            |-> borrower,
      nft_collateral_id   |-> nft_id,
      loan_amount         |-> amount,
      outstanding_balance |-> amount,
      total_repaid        |-> 0,
      interest_rate       |-> calculate_interest_rate(nft_id),
      duration_months     |-> duration_months,
      monthly_payment     |-> calculate_monthly_payment(amount, calculate_interest_rate(nft_id),
                                                        duration_months),
      start_timestamp     |-> timestamp,
      next_payment_due    |-> timestamp + ThirtyDays,
      status              |-> "Pending",
      payments_made       |-> 0,
      payments_missed     |-> 0 ]

ApprovedLoan(loan) == [loan EXCEPT !.status = "Active"]

RepaidStatus(outstanding_balance, status) ==
    IF outstanding_balance <= 0 THEN "Repaid" ELSE status

\* PaidLoan that leaves next_payment_due where it was
PaidLoan_DueKept(loan, amount) ==
    LET interest == calculate_interest_portion(loan.outstanding_balance, loan.interest_rate)
        balance  == loan.outstanding_balance - principal_portion(amount, interest)
    IN  [loan EXCEPT !.total_repaid = loan.total_repaid + amount,
                     !.outstanding_balance = balance,
                     !.payments_made = loan.payments_made + 1,
                     !.status = RepaidStatus(balance, loan.status)]

PaidLoan(loan, amount) ==
    LET interest == calculate_interest_portion(loan.outstanding_balance, loan.interest_rate)
        balance  == loan.outstanding_balance - principal_portion(amount, interest)
    IN  [loan EXCEPT !.total_repaid = loan.total_repaid + amount,
                     !.outstanding_balance = balance,
                     !.payments_made = loan.payments_made + 1,
                     !.next_payment_due = loan.next_payment_due + ThirtyDays,
                     !.status = RepaidStatus(balance, loan.status)]

\* MissedStatus with the threshold off by one, in either direction
MissedStatus_AboveThreshold(payments_missed, status) ==
    IF payments_missed > DefaultThreshold THEN "Defaulted" ELSE status

MissedStatus_AtFirstMiss(payments_missed, status) ==
    IF payments_missed >= DefaultThreshold - 1 THEN "Defaulted" ELSE status

MissedStatus(payments_missed, status) ==
    IF payments_missed >= DefaultThreshold THEN "Defaulted" ELSE status

MissedLoan(loan) ==
    [loan EXCEPT !.payments_missed = loan.payments_missed + 1,
                 !.status = MissedStatus(loan.payments_missed + 1, loan.status)]

\* payment_amount with the comparison reversed: the larger of the two
payment_amount_Larger(remittance_amount, monthly_payment) ==
    IF remittance_amount <= monthly_payment THEN monthly_payment ELSE remittance_amount

payment_amount(remittance_amount, monthly_payment) ==
    IF remittance_amount >= monthly_payment THEN monthly_payment ELSE remittance_amount

----------------------------------------------------------------------------
(* Storage. *)

NoConfig == [nft |-> Unset, pool |-> Unset, oracle |-> Unset, usdc |-> Unset]

\* StoreLoan that writes the record under every stored id
StoreLoan_Everywhere(loan_id, loan) ==
    [id \in DOMAIN Loans \cup {loan_id} |-> loan]

StoreLoan(loan_id, loan) ==
    IF loan_id \in DOMAIN Loans
    THEN [Loans EXCEPT ![loan_id] = loan]
    ELSE [id \in DOMAIN Loans \cup {loan_id} |-> IF id = loan_id THEN loan ELSE Loans[id]]

RECURSIVE SumOver(_, _)
SumOver(ids, field) ==
    IF ids = {} THEN 0
    ELSE LET id == CHOOSE x \in ids : TRUE
         IN  (IF field = "made" THEN Loans[id].payments_made ELSE Loans[id].payments_missed)
             + SumOver(ids \ {id}, field)

RecordedPayments == SumOver(DOMAIN Loans, "made")
RecordedMisses == SumOver(DOMAIN Loans, "missed")

Init ==
    /\ Config = NoConfig
    /\ LoanCounter = 0
    /\ Loans = [id \in {} |-> 0]
    /\ BorrowerLoans = [b \in Borrowers |-> <<>>]
    /\ history = <<>>
    /\ paidSinceMiss = {}

----------------------------------------------------------------------------
(* Calls. *)

initialize(cfg) ==
    /\ Config' = cfg
    /\ LoanCounter' = 0
    /\ UNCHANGED <<Loans, BorrowerLoans, history, paidSinceMiss>>

\* borrower.require_auth(), the unwrap of the NFT contract, the division by months
request_loan_ok(caller, borrower, duration_months) ==
    /\ caller = borrower
    /\ Config.nft # Unset
    /\ duration_months # 0

request_loan(caller, borrower, nft_id, amount, duration_months, timestamp) ==
    /\ request_loan_ok(caller, borrower, duration_months)
    /\ LET counter == LoanCounter + 1
       IN  /\ LoanCounter' = counter
           /\ Loans' = StoreLoan(counter, NewLoan(counter, borrower, nft_id, amount,
                                                  duration_months, timestamp))
           /\ BorrowerLoans' = [BorrowerLoans EXCEPT ![borrower] = Append(@, counter)]
           /\ history' = Append(history, <<borrower, counter>>)
           /\ paidSinceMiss' = paidSinceMiss \ {counter}
    /\ UNCHANGED Config

\* approve_loan_ok without the assert on the status
approve_loan_ok_AnyStatus(loan_id) ==
    /\ loan_id \in DOMAIN Loans
    /\ Config.nft # Unset
    /\ Config.pool # Unset

approve_loan_ok(loan_id) ==
    /\ loan_id \in DOMAIN Loans
    /\ Loans[loan_id].status = "Pending"
    /\ Config.nft # Unset
    /\ Config.pool # Unset

approve_loan(loan_id) ==
    /\ approve_loan_ok(loan_id)
    /\ Loans' = StoreLoan(loan_id, ApprovedLoan(Loans[loan_id]))
    /\ UNCHANGED <<Config, LoanCounter, BorrowerLoans, history, paidSinceMiss>>

\* make_payment_ok going on after a transfer that did not return
make_payment_ok_TransferIgnored(loan_id, transfer_ok) ==
    /\ loan_id \in DOMAIN Loans
    /\ Loans[loan_id].status = "Active"
    /\ Config.usdc # Unset
    /\ Config.pool # Unset

\* make_payment_ok without the assert on the status
make_payment_ok_AnyStatus(loan_id, transfer_ok) ==
    /\ loan_id \in DOMAIN Loans
    /\ Config.usdc # Unset
    /\ Config.pool # Unset
    /\ transfer_ok

\* transfer_ok: whether the token contract's transfer(borrower, pool, amount) returns
make_payment_ok(loan_id, transfer_ok) ==
    /\ loan_id \in DOMAIN Loans
    /\ Loans[loan_id].status = "Active"
    /\ Config.usdc # Unset
    /\ Config.pool # Unset
    /\ transfer_ok

make_payment(loan_id, amount, transfer_ok) ==
    /\ make_payment_ok(loan_id, transfer_ok)
    /\ Loans' = StoreLoan(loan_id, PaidLoan(Loans[loan_id], amount))
    /\ paidSinceMiss' = IF Loans[loan_id].payments_missed > 0
                        THEN paidSinceMiss \cup {loan_id}
                        ELSE paidSinceMiss
    /\ UNCHANGED <<Config, LoanCounter, BorrowerLoans, history>>

\* oracle_auth_ok without the comparison of the caller with the stored oracle
oracle_auth_ok_AnyCaller(caller) == Config.oracle # Unset

\* oracle.require_auth()
oracle_auth_ok(caller) ==
    /\ Config.oracle # Unset
    /\ caller = Config.oracle

process_automatic_repayment_ok(caller, loan_id, transfer_ok) ==
    /\ oracle_auth_ok(caller)
    /\ make_payment_ok(loan_id, transfer_ok)

\* the value process_automatic_repayment returns
residual(remittance_amount, monthly_payment) ==
    remittance_amount - payment_amount(remittance_amount, monthly_payment)

process_automatic_repayment(caller, loan_id, remittance_amount, transfer_ok) ==
    /\ process_automatic_repayment_ok(caller, loan_id, transfer_ok)
    /\ make_payment(loan_id,
                    payment_amount(remittance_amount, Loans[loan_id].monthly_payment),
                    transfer_ok)

mark_payment_missed_ok(caller, loan_id) ==
    /\ oracle_auth_ok(caller)
    /\ loan_id \in DOMAIN Loans

mark_payment_missed(caller, loan_id) ==
    /\ mark_payment_missed_ok(caller, loan_id)
    /\ Loans' = StoreLoan(loan_id, MissedLoan(Loans[loan_id]))
    /\ paidSinceMiss' = paidSinceMiss \ {loan_id}
    /\ UNCHANGED <<Config, LoanCounter, BorrowerLoans, history>>

----------------------------------------------------------------------------
(* The contract under arbitrary callers and arguments, explored within the  *)
(* bounds.                                                                  *)

Initialize == \E cfg \in ConfigInputs : initialize(cfg)

RequestLoan ==
    /\ LoanCounter < MaxLoans
    /\ Len(history) < MaxRequests
    /\ \E caller \in Callers, borrower \in Borrowers, nft_id \in NftIds,
          amount \in RequestAmounts, months \in Durations, ts \in Timestamps :
           request_loan(caller, borrower, nft_id, amount, months, ts)

ApproveLoan == \E loan_id \in LoanIds : approve_loan(loan_id)

MakePayment ==
    /\ RecordedPayments < MaxPayments
    /\ \E loan_id \in LoanIds, amount \in PayAmounts, transfer_ok \in BOOLEAN :
           make_payment(loan_id, amount, transfer_ok)

ProcessAutomaticRepayment ==
    /\ RecordedPayments < MaxPayments
    /\ \E caller \in Callers, loan_id \in LoanIds, amount \in RemittanceAmounts,
          transfer_ok \in BOOLEAN :
           process_automatic_repayment(caller, loan_id, amount, transfer_ok)

MarkPaymentMissed ==
    /\ RecordedMisses < MaxMissed
    /\ \E caller \in Callers, loan_id \in LoanIds : mark_payment_missed(caller, loan_id)

Next ==
    \/ Initialize
    \/ RequestLoan
    \/ ApproveLoan
    \/ MakePayment
    \/ ProcessAutomaticRepayment
    \/ MarkPaymentMissed

Spec == Init /\ [][Next]_vars

----------------------------------------------------------------------------
(* The payoff scenario: loans of 1,000,000 over 12 months, paid by          *)
(* instalments of 100,000 or by remittances of 150,000.                     *)

PayoffInitialize == \E cfg \in PayoffConfigInputs : initialize(cfg)

PayoffRequestLoan ==
    /\ LoanCounter < PayoffMaxLoans
    /\ Len(history) < MaxRequests
    /\ \E caller \in PayoffCallers, borrower \in PayoffBorrowers, nft_id \in NftIds,
          amount \in PayoffRequestAmounts, months \in PayoffDurations,
          ts \in PayoffTimestamps :
           request_loan(caller, borrower, nft_id, amount, months, ts)

PayoffApproveLoan == \E loan_id \in PayoffLoanIds : approve_loan(loan_id)

PayoffMakePayment ==
    /\ RecordedPayments < PayoffMaxPayments
    /\ \E loan_id \in PayoffLoanIds, amount \in PayoffPayAmounts, transfer_ok \in BOOLEAN :
           make_payment(loan_id, amount, transfer_ok)

PayoffProcessAutomaticRepayment ==
    /\ RecordedPayments < PayoffMaxPayments
    /\ \E caller \in PayoffCallers, loan_id \in PayoffLoanIds,
          amount \in PayoffRemittanceAmounts, transfer_ok \in BOOLEAN :
           process_automatic_repayment(caller, loan_id, amount, transfer_ok)

PayoffMarkPaymentMissed ==
    /\ RecordedMisses < MaxMissed
    /\ \E caller \in PayoffCallers, loan_id \in PayoffLoanIds :
           mark_payment_missed(caller, loan_id)

PayoffNext ==
    \/ PayoffInitialize
    \/ PayoffRequestLoan
    \/ PayoffApproveLoan
    \/ PayoffMakePayment
    \/ PayoffProcessAutomaticRepayment
    \/ PayoffMarkPaymentMissed

PayoffSpec == Init /\ [][PayoffNext]_vars

----------------------------------------------------------------------------
(* The edge scenario: payments and remittances of zero or less, payments    *)
(* below the interest due, and reports of misses on loans that are already  *)
(* Defaulted.                                                               *)

EdgeInitialize == \E cfg \in EdgeConfigInputs : initialize(cfg)

EdgeRequestLoan ==
    /\ LoanCounter < EdgeMaxLoans
    /\ Len(history) < MaxRequests
    /\ \E caller \in EdgeCallers, borrower \in EdgeBorrowers, nft_id \in NftIds,
          amount \in RequestAmounts, months \in EdgeDurations, ts \in Timestamps :
           request_loan(caller, borrower, nft_id, amount, months, ts)

EdgeApproveLoan == \E loan_id \in EdgeLoanIds : approve_loan(loan_id)

EdgeMakePayment ==
    /\ RecordedPayments < EdgeMaxPayments
    /\ \E loan_id \in EdgeLoanIds, amount \in EdgePayAmounts, transfer_ok \in BOOLEAN :
           make_payment(loan_id, amount, transfer_ok)

EdgeProcessAutomaticRepayment ==
    /\ RecordedPayments < EdgeMaxPayments
    /\ \E caller \in EdgeCallers, loan_id \in EdgeLoanIds,
          amount \in EdgeRemittanceAmounts, transfer_ok \in BOOLEAN :
           process_automatic_repayment(caller, loan_id, amount, transfer_ok)

EdgeMarkPaymentMissed ==
    /\ RecordedMisses < EdgeMaxMissed
    /\ \E caller \in EdgeCallers, loan_id \in EdgeLoanIds :
           mark_payment_missed(caller, loan_id)

EdgeNext ==
    \/ EdgeInitialize
    \/ EdgeRequestLoan
    \/ EdgeApproveLoan
    \/ EdgeMakePayment
    \/ EdgeProcessAutomaticRepayment
    \/ EdgeMarkPaymentMissed

EdgeSpec == Init /\ [][EdgeNext]_vars

----------------------------------------------------------------------------
(* Properties. *)

Terminal(loan) == loan.status \in {"Repaid", "Defaulted"}

\* A step that is no request_loan keeps every stored id on the loan it held.
SameLoans == history' = history

LegalStatusChange(before, after) ==
    \/ before = after
    \/ before = "Pending" /\ after = "Active"
    \/ before = "Active" /\ after = "Repaid"
    \/ before = "Active" /\ after = "Defaulted"

\* C1: every loan requested with amount > 0 has 0 <= outstanding_balance <= loan_amount
\* in every reachable state (a payment never drives the balance below zero).
C1_BalanceWithinPrincipal ==
    \A id \in DOMAIN Loans :
        Loans[id].loan_amount > 0 =>
            /\ 0 <= Loans[id].outstanding_balance
            /\ Loans[id].outstanding_balance <= Loans[id].loan_amount

\* C2: every change of a loan's status in one step of approve, pay,
\* process_automatic_repayment or mark_missed is Pending->Active, Active->Repaid or
\* Active->Defaulted.
C2_LegalTransitions ==
    [][SameLoans =>
        \A id \in DOMAIN Loans : LegalStatusChange(Loans[id].status, Loans'[id].status)]_vars

\* C3: once a loan is Repaid or Defaulted, no approve, pay, process_automatic_repayment
\* or mark_missed call changes its record: each of them fails.
C3_TerminalRecordFrozen ==
    [][SameLoans =>
        \A id \in DOMAIN Loans : Terminal(Loans[id]) => Loans'[id] = Loans[id]]_vars

\* C4: a loan of 1,000,000 over 12 months has monthly_payment 100,000, and after
\* approve and 12 successful payments of 100,000 (no missed payment reported) its
\* outstanding_balance is 0 and its status is Repaid.
C4_PayoffScenario ==
    \A id \in DOMAIN Loans :
        (Loans[id].loan_amount = 1000000 /\ Loans[id].duration_months = 12) =>
            /\ Loans[id].monthly_payment = 100000
            /\ (Loans[id].payments_made = 12 /\ Loans[id].total_repaid = 1200000
                    /\ Loans[id].payments_missed = 0) =>
                   /\ Loans[id].outstanding_balance = 0
                   /\ Loans[id].status = "Repaid"

\* C5: total_repaid >= 0 in every reachable state, and no successful payment
\* (make_payment or process_automatic_repayment, whatever the amount) decreases a
\* loan's total_repaid or payments_made.
C5_RepaidMonotone ==
    /\ [](\A id \in DOMAIN Loans : Loans[id].total_repaid >= 0)
    /\ [][SameLoans =>
            \A id \in DOMAIN Loans :
                /\ Loans'[id].total_repaid >= Loans[id].total_repaid
                /\ Loans'[id].payments_made >= Loans[id].payments_made]_vars

\* C6: in every reachable state a loan with payments_missed >= 2 is Defaulted,
\* whatever its status was when the misses were reported.
C6_MissedImpliesDefaulted ==
    \A id \in DOMAIN Loans :
        Loans[id].payments_missed >= 2 => Loans[id].status = "Defaulted"

\* C6 witness: a loan that was repaid (balance <= 0, a payment recorded) and then had
\* two misses reported.
C6_Witness ==
    \E id \in DOMAIN Loans :
        /\ Loans[id].payments_missed >= 2
        /\ Loans[id].payments_made >= 1
        /\ Loans[id].outstanding_balance <= 0

\* C7: the first mark_payment_missed on an Active loan with no miss recorded leaves
\* it Active; the second one (payments_missed 1 -> 2) leaves it Defaulted.
C7_DefaultThreshold ==
    [][SameLoans =>
        \A id \in DOMAIN Loans :
            /\ (Loans[id].status = "Active" /\ Loans[id].payments_missed = 0
                    /\ Loans'[id].payments_missed = 1)
                   => Loans'[id].status = "Active"
            /\ (Loans[id].payments_missed = 1 /\ Loans'[id].payments_missed = 2)
                   => Loans'[id].status = "Defaulted"]_vars

\* C7 witness: a funded loan with an open balance that was defaulted by its second miss.
C7_Witness ==
    \E id \in DOMAIN Loans :
        /\ Loans[id].payments_missed = 2
        /\ Loans[id].status = "Defaulted"
        /\ Loans[id].payments_made >= 1
        /\ Loans[id].outstanding_balance > 0

\* C8: the ids returned by successful request_loan calls are non-zero and strictly
\* increasing, over any sequence of calls including __initialize.
C8_FreshIds ==
    /\ \A i \in 1 .. Len(history) : history[i][2] # 0
    /\ \A i \in 1 .. Len(history) : \A j \in 1 .. Len(history) :
           i < j => history[i][2] < history[j][2]

RequestedBy(b) ==
    LET ByBorrower(entry) == entry[1] = b
        picked == SelectSeq(history, ByBorrower)
    IN  [i \in 1 .. Len(picked) |-> picked[i][2]]

\* C9: each borrower's list holds exactly the ids of the loans that borrower
\* requested, each once, in request order, and the loan stored under each listed id
\* has that borrower.
C9_BorrowerIndex ==
    \A b \in Borrowers :
        /\ BorrowerLoans[b] = RequestedBy(b)
        /\ \A i \in 1 .. Len(BorrowerLoans[b]) : \A j \in 1 .. Len(BorrowerLoans[b]) :
               i # j => BorrowerLoans[b][i] # BorrowerLoans[b][j]
        /\ \A i \in 1 .. Len(BorrowerLoans[b]) :
               /\ BorrowerLoans[b][i] \in DOMAIN Loans
               /\ Loans[BorrowerLoans[b][i]].borrower = b

\* C10: once __initialize has run, no later call changes any of the four
\* configuration identities.
C10_ConfigSetOnce ==
    [][Config # NoConfig => Config' = Config]_vars

Min(a, b) == IF a <= b THEN a ELSE b
Max(a, b) == IF a >= b THEN a ELSE b

\* A step that is no request_loan and adds one payment to the loan's count: every
\* make_payment step on the loan is one, directly or through the oracle.
PaymentRecorded(id) ==
    /\ SameLoans
    /\ Loans'[id].payments_made = Loans[id].payments_made + 1

\* C11: process_automatic_repayment by the oracle on an Active loan applies exactly one
\* payment of min(remittance_amount, monthly_payment) and returns the rest of the
\* remittance: the residual is >= 0 and payment + residual = remittance (150,000
\* against a monthly payment of 100,000 pays 100,000 and returns 50,000).
C11_AutomaticResidual ==
    [][\A id \in DOMAIN Loans :
          PaymentRecorded(id) =>
              \A caller \in Callers, r \in RemittanceAmounts :
                  process_automatic_repayment(caller, id, r, TRUE) =>
                      LET m == Loans[id].monthly_payment
                      IN  /\ Loans' = [Loans EXCEPT ![id] = PaidLoan(Loans[id], Min(r, m))]
                          /\ Loans'[id].total_repaid = Loans[id].total_repaid + Min(r, m)
                          /\ residual(r, m) = r - Min(r, m)
                          /\ residual(r, m) >= 0
                          /\ payment_amount(150000, 100000) = 100000
                          /\ residual(150000, 100000) = 50000]_vars

\* C11 witness: a loan paid off by one remittance of 2000 against its monthly payment
\* of 1016 (residual 984).
C11_Witness ==
    \E id \in DOMAIN Loans :
        /\ Loans[id].monthly_payment = 1016
        /\ Loans[id].payments_made = 1
        /\ Loans[id].total_repaid = 1016
        /\ Loans[id].status = "Repaid"
        /\ residual(2000, Loans[id].monthly_payment) = 984

\* C12: process_automatic_repayment and mark_payment_missed are refused for every
\* caller other than the registered oracle (a refused call changes nothing).
C12_OracleOnly ==
    \A caller \in Callers :
        caller # Config.oracle =>
            \A id \in LoanIds :
                /\ ~mark_payment_missed_ok(caller, id)
                /\ \A transfer_ok \in BOOLEAN :
                       ~process_automatic_repayment_ok(caller, id, transfer_ok)

\* C12 witness: after a second __initialize the oracle is oracle2; it may report on an
\* Active loan with a miss on record, the former oracle oracle1 may not.
C12_Witness ==
    /\ Config.oracle = "oracle2"
    /\ \E id \in DOMAIN Loans :
           /\ Loans[id].status = "Active"
           /\ Loans[id].payments_missed = 1
           /\ mark_payment_missed_ok("oracle2", id)
           /\ ~mark_payment_missed_ok("oracle1", id)

\* interest on the balance held before the payment, both divisions truncating
InterestBefore(loan) ==
    TruncDiv(loan.outstanding_balance * (loan.interest_rate \div 12), 10000)

SplitApplied(before, after, amount) ==
    LET interest  == InterestBefore(before)
        principal == Max(0, amount - interest)
    IN  /\ after.outstanding_balance = before.outstanding_balance - principal
        /\ (amount <= interest => after.outstanding_balance = before.outstanding_balance)
        /\ after.total_repaid = before.total_repaid + amount

\* C13: every successful payment is split against the balance held before it:
\* interest = balance * (rate / 12) / 10000, principal = max(0, amount - interest), the
\* balance falls by exactly the principal part; with amount <= interest the balance
\* stays while total_repaid grows by amount and payments_made by 1 (PaymentRecorded).
C13_SplitAgainstBalanceBefore ==
    [][\A id \in DOMAIN Loans :
          PaymentRecorded(id) =>
              /\ \A amount \in PayAmounts :
                     make_payment(id, amount, TRUE) =>
                         SplitApplied(Loans[id], Loans'[id], amount)
              /\ \A caller \in Callers, r \in RemittanceAmounts :
                     process_automatic_repayment(caller, id, r, TRUE) =>
                         SplitApplied(Loans[id], Loans'[id],
                                      Min(r, Loans[id].monthly_payment))]_vars

\* C13 witness: a loan of 1000 after a payment of -50 (below the interest of 16: balance
\* kept) and one of 300 (interest 16, principal 284): balance 716, total_repaid 250.
C13_Witness ==
    \E id \in DOMAIN Loans :
        /\ Loans[id].loan_amount = 1000
        /\ Loans[id].payments_made = 2
        /\ Loans[id].total_repaid = 250
        /\ Loans[id].outstanding_balance = 716

\* C14: a payment of amount <= 0 on an Active loan is rejected and leaves the record
\* unchanged, also when the amount comes from process_automatic_repayment with a
\* remittance <= 0: no step is such a payment.
C14_NonPositiveAmountRejected ==
    [][\A id \in DOMAIN Loans :
          /\ \A amount \in EdgePayAmounts :
                 amount <= 0 => ~make_payment(id, amount, TRUE)
          /\ \A caller \in EdgeCallers, r \in EdgeRemittanceAmounts :
                 r <= 0 => ~process_automatic_repayment(caller, id, r, TRUE)]_vars

\* C15: approve_loan succeeds on a Pending loan and makes it Active with its balance
\* untouched; on the loan it made Active (on any loan that is not Pending) it fails,
\* so a second approve changes neither status nor outstanding_balance.
C15_ApproveOnce ==
    /\ [](\A id \in LoanIds :
             (id \in DOMAIN Loans /\ Loans[id].status # "Pending") => ~approve_loan_ok(id))
    /\ [][\A id \in DOMAIN Loans :
             approve_loan(id) =>
                 /\ Loans[id].status = "Pending"
                 /\ Loans'[id].status = "Active"
                 /\ Loans'[id].outstanding_balance = Loans[id].outstanding_balance
                 /\ ~approve_loan_ok(id)']_vars

\* C15 witness: an approved loan, still Active, on which a further approve is refused.
C15_Witness ==
    \E id \in DOMAIN Loans :
        /\ Loans[id].status = "Active"
        /\ Loans[id].outstanding_balance = Loans[id].loan_amount
        /\ Config.nft # Unset
        /\ Config.pool # Unset
        /\ ~approve_loan_ok(id)

PaymentFields(loan) ==
    <<loan.outstanding_balance, loan.total_repaid, loan.payments_made,
      loan.next_payment_due>>

\* C16: a payment is all or nothing: make_payment, directly or through
\* process_automatic_repayment, is refused when the loan is absent, when it is not
\* Active and when the token transfer fails, and the balance, the repaid total, the
\* payment count and the due date of a loan change only in a step that is one whole
\* payment on an Active loan (all four fields updated together, status settled).
C16_PaymentAllOrNothing ==
    /\ [](\A id \in LoanIds :
             /\ ~make_payment_ok(id, FALSE)
             /\ id \notin DOMAIN Loans => ~make_payment_ok(id, TRUE)
             /\ (id \in DOMAIN Loans /\ Loans[id].status # "Active")
                    => ~make_payment_ok(id, TRUE)
             /\ \A caller \in Callers :
                    ~make_payment_ok(id, TRUE) =>
                        ~process_automatic_repayment_ok(caller, id, TRUE)
             /\ \A caller \in Callers : ~process_automatic_repayment_ok(caller, id, FALSE))
    /\ [][SameLoans =>
             \A id \in DOMAIN Loans :
                 PaymentFields(Loans'[id]) # PaymentFields(Loans[id]) =>
                     /\ Loans[id].status = "Active"
                     /\ \E amount \in PayAmounts \cup RemittanceAmounts
                                      \cup {Loans[id].monthly_payment} :
                            Loans'[id] = PaidLoan(Loans[id], amount)
                     /\ \A other \in DOMAIN Loans \ {id} : Loans'[other] = Loans[other]]_vars

\* C16 witness: two loans, one with a whole payment recorded, the other Pending (so a
\* payment on it is refused) and untouched.
C16_Witness ==
    \E id \in DOMAIN Loans, other \in DOMAIN Loans :
        /\ id # other
        /\ Loans[id].payments_made = 1
        /\ Loans[id].total_repaid = 300
        /\ Loans[id].outstanding_balance = 716
        /\ Loans[other].status = "Pending"
        /\ Config.usdc # Unset
        /\ ~make_payment_ok(other, TRUE)
        /\ ~make_payment_ok(id, FALSE)

\* C17: in every reachable state every loan has
\* next_payment_due = start_timestamp + 30 days * (1 + payments_made); a recorded
\* payment advances the date by 2,592,000 seconds and approve_loan and
\* mark_payment_missed leave it alone.
C17_NextPaymentDue ==
    /\ [](\A id \in DOMAIN Loans :
             Loans[id].next_payment_due =
                 Loans[id].start_timestamp
                     + (30 * 24 * 60 * 60) * (1 + Loans[id].payments_made))
    /\ [][SameLoans =>
             \A id \in DOMAIN Loans :
                 /\ Loans'[id].payments_made = Loans[id].payments_made + 1
                        => Loans'[id].next_payment_due = Loans[id].next_payment_due + 2592000
                 /\ Loans'[id].payments_made = Loans[id].payments_made
                        => Loans'[id].next_payment_due = Loans[id].next_payment_due]_vars

\* C17 witness: a loan started at 1000, approved, with one miss reported and two
\* payments recorded: due at 1000 + 3 * 2,592,000.
C17_Witness ==
    \E id \in DOMAIN Loans :
        /\ Loans[id].start_timestamp = 1000
        /\ Loans[id].payments_made = 2
        /\ Loans[id].payments_missed = 1
        /\ Loans[id].next_payment_due = 7777000

ImmutableFields(loan) ==
    <<loan.loan_id, loan.borrower, loan.nft_collateral_id, loan.loan_amount,
      loan.interest_rate, loan.duration_months, loan.monthly_payment,
      loan.start_timestamp>>

\* A step of approve_loan, make_payment, process_automatic_repayment or
\* mark_payment_missed: the only steps that change a stored record and are no
\* request_loan.
OnSomeLoan ==
    /\ SameLoans
    /\ Loans' # Loans

\* C18: approve_loan, make_payment, process_automatic_repayment and
\* mark_payment_missed on loan L change neither L's id, borrower, collateral id,
\* principal, rate, duration, monthly payment and start timestamp, nor any other loan,
\* nor the set of stored loans, the id counter or the borrower index.
C18_Frame ==
    [][OnSomeLoan =>
          /\ DOMAIN Loans' = DOMAIN Loans
          /\ \A id \in DOMAIN Loans :
                 ImmutableFields(Loans'[id]) = ImmutableFields(Loans[id])
          /\ \E id \in DOMAIN Loans :
                 \A other \in DOMAIN Loans \ {id} : Loans'[other] = Loans[other]
          /\ LoanCounter' = LoanCounter
          /\ BorrowerLoans' = BorrowerLoans]_vars

\* C18 witness: two loans of two borrowers, the first approved, paid and reported
\* missed, the second still as it was requested.
C18_Witness ==
    /\ DOMAIN Loans = {1, 2}
    /\ LoanCounter = 2
    /\ Loans[1].borrower # Loans[2].borrower
    /\ Loans[1].payments_made = 1
    /\ Loans[1].payments_missed = 1
    /\ Loans[2] = NewLoan(2, Loans[2].borrower, 7, 1000, 1, 1000)
    /\ BorrowerLoans[Loans[1].borrower] = <<1>>
    /\ BorrowerLoans[Loans[2].borrower] = <<2>>

\* C19: mark_payment_missed defaults a loan only on two consecutive misses: a report
\* on an Active loan that has a payment recorded since its previous reported miss
\* does not make it Defaulted.
C19_DefaultOnlyOnConsecutiveMisses ==
    [][SameLoans =>
          \A id \in DOMAIN Loans :
              (/\ Loans[id].status = "Active"
               /\ id \in paidSinceMiss
               /\ Loans'[id].payments_missed = Loans[id].payments_missed + 1)
                  => Loans'[id].status # "Defaulted"]_vars

\* C20: once a loan is Defaulted no approve_loan, make_payment,
\* process_automatic_repayment or mark_payment_missed changes its status,
\* outstanding_balance, total_repaid or payments_made, and in every reachable state a
\* Pending loan has payments_made = 0, total_repaid = 0 and
\* outstanding_balance = loan_amount.
C20_DefaultedAbsorbing ==
    /\ [](\A id \in DOMAIN Loans :
             Loans[id].status = "Pending" =>
                 /\ Loans[id].payments_made = 0
                 /\ Loans[id].total_repaid = 0
                 /\ Loans[id].outstanding_balance = Loans[id].loan_amount)
    /\ [][SameLoans =>
             \A id \in DOMAIN Loans :
                 Loans[id].status = "Defaulted" =>
                     /\ Loans'[id].status = "Defaulted"
                     /\ Loans'[id].outstanding_balance = Loans[id].outstanding_balance
                     /\ Loans'[id].total_repaid = Loans[id].total_repaid
                     /\ Loans'[id].payments_made = Loans[id].payments_made]_vars

\* C20 witness: a loan with payments recorded that was Defaulted by its second miss
\* and then had a third one reported.
C20_Witness ==
    \E id \in DOMAIN Loans :
        /\ Loans[id].status = "Defaulted"
        /\ Loans[id].payments_missed = 3
        /\ Loans[id].payments_made = 2
        /\ Loans[id].total_repaid = 10
        /\ Loans[id].outstanding_balance = Loans[id].loan_amount

====
